---- MODULE Spec2Model ----
(***************************************************************************)
(* Model of src/binitys.py: the incremental clustering engine              *)
(* cluster_articles_with_tfidf and the score parser compare_articles_score.*)
(*                                                                         *)
(* Numbers.  Oracle scores and the two oracle thresholds are quantised in  *)
(* steps of 1/MaxScore: the integer s stands for the float s / MaxScore,   *)
(* so MaxScore stands for 1.0, Invalid for -1.0 and BestInit for -5.0.     *)
(* TF-IDF cosine similarities and tfidf_threshold take the two extreme     *)
(* values 0 (0.0) and 1 (1.0); the vectorizer is not modelled, so the      *)
(* similarities of an article to the registered references are inputs      *)
(* drawn where line 168 computes them.                                     *)
(* Indices are 0-based as in the Python source.  A cluster label, built in *)
(* the source by f"{document name} {article id}", is the pair <<doc, id>>. *)
(***************************************************************************)
EXTENDS Integers, Sequences, FiniteSets, TLC

\* ----------------------------------------------------------------------
\* Bounds
\* ----------------------------------------------------------------------
NumArticles == 3
MaxSubcats == 2        \* clusters of a clustered file
MaxMembers == 3        \* articles of one cluster of a clustered file
MaxFileArticles == 5   \* articles of a clustered file
MaxAnswer == 3         \* atoms of an LLM answer
MaxResults == 3        \* relation records given to summarize_relations
MaxLines == 4          \* lines given to parse_articles
MaxDocuments == 2      \* documents of a parsed file
MaxReply == 2          \* atoms of a YES / NO answer
MaxScore == 3

\* ----------------------------------------------------------------------
\* Input domains
\* ----------------------------------------------------------------------
Docs == {"doc1", "doc2"}
ArticleIds == <<"a0", "a1", "a2", "a3", "a4">>
Indices == 0 .. (NumArticles - 1)
SimValues == {0, 1}
ValidScores == 0 .. MaxScore
LlmThresholds == ValidScores
EarlyExits == ValidScores

\* The parsed shape of an oracle answer: text that float() rejects, the
\* text "nan", or a decimal number val / MaxScore (in or out of [0,1]).
Responses ==
    {[kind |-> "text", val |-> 0], [kind |-> "nan", val |-> 0]}
        \cup {[kind |-> "num", val |-> v] : v \in (-1) .. (MaxScore + 1)}

Invalid == 0 - MaxScore
BestInit == 0 - (5 * MaxScore)
None == <<>>
NoneIdx == -1

VARIABLES
    articles,            \* the input list: index -> [doc, id, paragraphs]
    sim,                 \* ref_idx -> cosine_similarity(article_vec, ref_vec) of the article last selected for
    tfidf_threshold, llm_threshold, early_exit,
    pc,                  \* "loop" | "compare" | "decide" | "done" | "saved"
    idx,                 \* the for-loop index of line 146
    reference_indices, reference_to_label, clusters,
    candidate_refs, cpos,
    best_score, best_ref_label, best_ref_idx, prelim_matches,
    response, score,     \* the last oracle answer and the score parsed from it
    calls,               \* oracle calls issued for the article last compared: <<i, r, score>>
    output,              \* the list save_clusters_to_json dumps
    \* a second run of cluster_articles_with_tfidf on the same articles,
    \* tfidf_threshold, early_exit and oracle, with its own llm_threshold
    b_llm_threshold, b_pc, b_idx,
    b_reference_indices, b_reference_to_label, b_clusters,
    b_candidate_refs, b_cpos,
    b_best_score, b_best_ref_label, b_best_ref_idx, b_prelim_matches,
    \* analyse_clustered_file
    data,                \* the parsed clustered file
    an_pc,               \* "subcat" | "pairs" | "returned" | "raised"
    an_subcat,           \* position of the for loop over data, 1-based
    an_pairs,            \* what is left of itertools.combinations(range(len(articles)), 2)
    all_results,         \* the records appended so far
    an_asked,            \* the <<section_a_id, section_b_id>> of each classify_paragraph_pair call
    \* one call of a function without side effects
    fn_arg,              \* its argument
    fn_ret,              \* <<what it returned or the exception it raised>>; <<>> before the call
    \* split_credit_related_by_risk
    split_articles,      \* the loaded list
    split_index,         \* articles handled so far
    split_lists,         \* credit_risk, ..., compliance_risk, by category
    unclassified_count,
    split_pc,            \* "loop" | "returned" | "raised"
    \* classify_articles (select_relevant.py)
    documents,           \* the loaded documents
    doc_index,           \* position of the outer loop, 1-based
    art_index,           \* position of the inner loop, 1-based
    relevant_articles,
    unrelated_articles,
    select_calls,        \* <<doc_index, art_index, is_rel>> of each is_credit_relevant call
    answer,              \* the LLM output of the last call
    select_pc            \* "loop" | "returned"

vars == <<articles, sim, tfidf_threshold, llm_threshold, early_exit, pc, idx,
          reference_indices, reference_to_label, clusters, candidate_refs, cpos,
          best_score, best_ref_label, best_ref_idx, prelim_matches,
          response, score, calls, output,
          b_llm_threshold, b_pc, b_idx, b_reference_indices, b_reference_to_label,
          b_clusters, b_candidate_refs, b_cpos, b_best_score, b_best_ref_label,
          b_best_ref_idx, b_prelim_matches,
          data, an_pc, an_subcat, an_pairs, all_results, an_asked,
          fn_arg, fn_ret,
          split_articles, split_index, split_lists, unclassified_count, split_pc,
          documents, doc_index, art_index, relevant_articles, unrelated_articles,
          select_calls, answer, select_pc>>

analysis == <<data, an_pc, an_subcat, an_pairs, all_results, an_asked>>
call == <<fn_arg, fn_ret>>
split == <<split_articles, split_index, split_lists, unclassified_count, split_pc>>
select == <<documents, doc_index, art_index, relevant_articles, unrelated_articles,
            select_calls, answer, select_pc>>
tools == <<call, split, select>>
inputs == <<articles, tfidf_threshold, llm_threshold, early_exit>>
twin == <<b_llm_threshold, b_pc, b_idx, b_reference_indices, b_reference_to_label,
          b_clusters, b_candidate_refs, b_cpos, b_best_score, b_best_ref_label,
          b_best_ref_idx, b_prelim_matches>>
locals == <<candidate_refs, cpos, best_score, best_ref_label, best_ref_idx,
            prelim_matches, response, score, calls>>

\* ----------------------------------------------------------------------
\* Pure helpers
\* ----------------------------------------------------------------------
Min2(a, b) == IF b < a THEN b ELSE a
Max2(a, b) == IF b > a THEN b ELSE a

\* len(articles), the end of enumerate(articles)
len(a) == Cardinality(DOMAIN a)

\* article_label = f"{document name} {article id}"
Label(a) == <<a.doc, a.id>>

\* variant: the except branch yields 0.0 instead of the sentinel
compare_articles_score_Zero(r) ==
    CASE r.kind = "text" -> 0
      [] r.kind = "nan" -> Max2(0, MaxScore)
      [] OTHER -> Max2(0, Min2(MaxScore, r.val))

\* compare_articles_score, from the oracle answer on: float(), clamp, except.
\* min(1.0, nan) is 1.0 in Python, so "nan" clamps to 1.0.
compare_articles_score(r) ==
    CASE r.kind = "text" -> Invalid
      [] r.kind = "nan" -> Max2(0, MaxScore)
      [] OTHER -> Max2(0, Min2(MaxScore, r.val))

\* dict operations on the ordered store: a sequence of [label, members]
HasKey(cl, l) == \E k \in 1 .. Len(cl) : cl[k].label = l

SetItem(cl, l, ms) ==
    IF HasKey(cl, l)
    THEN [k \in 1 .. Len(cl) |-> IF cl[k].label = l THEN [label |-> l, members |-> ms] ELSE cl[k]]
    ELSE Append(cl, [label |-> l, members |-> ms])

\* variant: the member list is overwritten instead of extended
AppendMember_Overwrite(cl, l, m) == SetItem(cl, l, <<m>>)

\* clusters[label].append(member)
AppendMember(cl, l, m) ==
    [k \in 1 .. Len(cl) |->
        IF cl[k].label = l THEN [label |-> l, members |-> Append(cl[k].members, m)] ELSE cl[k]]

\* variant: no same-document skip
RECURSIVE SelectCandidates_NoDocSkip(_, _, _, _, _)
SelectCandidates_NoDocSkip(arts, sm, thr, i, refs) ==
    IF refs = <<>> THEN <<>>
    ELSE LET r == Head(refs)
             rest == SelectCandidates_NoDocSkip(arts, sm, thr, i, Tail(refs))
         IN IF sm[r] >= thr THEN <<r>> \o rest ELSE rest

\* variant: the pre-filter is strict (sim > tfidf_threshold)
RECURSIVE SelectCandidates_Strict(_, _, _, _, _)
SelectCandidates_Strict(arts, sm, thr, i, refs) ==
    IF refs = <<>> THEN <<>>
    ELSE LET r == Head(refs)
             rest == SelectCandidates_Strict(arts, sm, thr, i, Tail(refs))
         IN IF arts[i].doc = arts[r].doc THEN rest
            ELSE IF sm[r] > thr THEN <<r>> \o rest
            ELSE rest

\* the candidate loop of lines 166-175 over the reference pool, in pool order
RECURSIVE SelectCandidates(_, _, _, _, _)
SelectCandidates(arts, sm, thr, i, refs) ==
    IF refs = <<>> THEN <<>>
    ELSE LET r == Head(refs)
             rest == SelectCandidates(arts, sm, thr, i, Tail(refs))
         IN IF arts[i].doc = arts[r].doc THEN rest
            ELSE IF sm[r] >= thr THEN <<r>> \o rest
            ELSE rest

\* variant: the last element of maximal score
RECURSIVE MaxByScore_Last(_)
MaxByScore_Last(ms) ==
    IF Len(ms) = 1 THEN ms[1]
    ELSE LET m == MaxByScore_Last(SubSeq(ms, 1, Len(ms) - 1))
             l == ms[Len(ms)]
         IN IF l[2] >= m[2] THEN l ELSE m

\* max(prelim_matches, key=lambda x: x[1]): the first element of maximal score
RECURSIVE MaxByScore(_)
MaxByScore(ms) ==
    IF Len(ms) = 1 THEN ms[1]
    ELSE LET m == MaxByScore(SubSeq(ms, 1, Len(ms) - 1))
             l == ms[Len(ms)]
         IN IF l[2] > m[2] THEN l ELSE m

\* variant: the records are emitted in reverse order
save_clusters_to_json_Reversed(cl) ==
    [k \in 1 .. Len(cl) |->
        [reference_label |-> cl[Len(cl) + 1 - k].label, articles |-> cl[Len(cl) + 1 - k].members]]

\* save_clusters_to_json: one record per item of clusters.items(), in dict order
save_clusters_to_json(cl) ==
    [k \in 1 .. Len(cl) |-> [reference_label |-> cl[k].label, articles |-> cl[k].members]]

\* variant: the comparison is turned around
IsMatch_Lt(sc, thr) == sc < thr

\* variant: a score equal to llm_threshold is a preliminary match
IsMatch_Ge(sc, thr) == sc >= thr

\* if score > llm_threshold
IsMatch(sc, thr) == sc > thr

\* if score > best_score
IsBetter(sc, best) == sc > best

\* variant: early exit only above the threshold
IsEarlyExit_Strict(sc, thr) == sc > thr

\* if score >= early_exit
IsEarlyExit(sc, thr) == sc >= thr

\* variant: the assigned article is registered under its own label
AssignedLabel_Own(chosen_ref_label, article_label) == article_label

\* reference_to_label[idx] = chosen_ref_label
AssignedLabel(chosen_ref_label, article_label) == chosen_ref_label

\* ----------------------------------------------------------------------
\* Initial states
\* ----------------------------------------------------------------------
InitFor(ArticleLists, Tfidfs, Llms, Exits) ==
    /\ articles \in ArticleLists
    /\ sim = <<>>
    /\ tfidf_threshold \in Tfidfs
    /\ llm_threshold \in Llms
    /\ early_exit \in Exits
    /\ pc = "loop"
    /\ idx = 0
    /\ reference_indices = <<>>
    /\ reference_to_label = <<>>
    /\ clusters = <<>>
    /\ candidate_refs = <<>>
    /\ cpos = 1
    /\ best_score = BestInit
    /\ best_ref_label = None
    /\ best_ref_idx = NoneIdx
    /\ prelim_matches = <<>>
    /\ response = [kind |-> "text", val |-> 0]
    /\ score = Invalid
    /\ calls = <<>>
    /\ output = <<>>

\* the second run before its first step, with llm_threshold drawn from Llms
InitTwin(Llms) ==
    /\ b_llm_threshold \in Llms
    /\ b_pc = "loop"
    /\ b_idx = 0
    /\ b_reference_indices = <<>>
    /\ b_reference_to_label = <<>>
    /\ b_clusters = <<>>
    /\ b_candidate_refs = <<>>
    /\ b_cpos = 1
    /\ b_best_score = BestInit
    /\ b_best_ref_label = None
    /\ b_best_ref_idx = NoneIdx
    /\ b_prelim_matches = <<>>

\* the articles of a clustered file carry pairwise distinct ids
SectionIds == <<"s1", "s2", "s3", "s4", "s5", "s6", "s7", "s8">>
Relations == {"overlap", "contradiction", "bloat"}

RECURSIVE SumLen(_)
SumLen(sq) == IF sq = <<>> THEN 0 ELSE Len(Head(sq)) + SumLen(Tail(sq))

\* clustered files: per cluster the "article paragraphs" of its articles
FileShapes ==
    LET ParaLists == UNION {[1 .. m -> {<<>>, <<"p1">>}] : m \in 0 .. MaxMembers}
    IN {d \in UNION {[1 .. n -> ParaLists] : n \in 0 .. MaxSubcats} :
           SumLen(d) <= MaxFileArticles}

ClusteredFile(d) ==
    [c \in 1 .. Len(d) |->
        [reference_label |-> <<"doc1", SectionIds[SumLen(SubSeq(d, 1, c - 1)) + 1]>>,
         articles |-> [m \in 1 .. Len(d[c]) |->
                          [id |-> SectionIds[SumLen(SubSeq(d, 1, c - 1)) + m],
                           paragraphs |-> d[c][m]]]]]

ClusteredFiles == {ClusteredFile(d) : d \in FileShapes}

\* analyse_clustered_file after json.load, before its first loop step
InitAnalysis(Files) ==
    /\ data \in Files
    /\ an_pc = "subcat"
    /\ an_subcat = 1
    /\ an_pairs = <<>>
    /\ all_results = <<>>
    /\ an_asked = <<>>

\* the five categories of VALID_CATEGORIES
VALID_CATEGORIES ==
    {"CREDIT_RISK", "LIQUIDITY_RISK", "MARKET_RISK", "OPERATIONAL_RISK", "COMPLIANCE_RISK"}

\* fn_ret holds what the call returned or raised, once it has
NotCalled == <<>>
Returned == fn_ret # NotCalled
Result == fn_ret[1]

\* None where the other values are strings (null in a JSON file)
Null == "None"

\* a function about to be called on one of Args
InitCall(Args) ==
    /\ fn_arg \in Args
    /\ fn_ret = NotCalled

\* split_credit_related_by_risk after json.load, before its loop
InitSplit(ArticleLists) ==
    /\ split_articles \in ArticleLists
    /\ split_index = 0
    /\ split_lists = [cat \in VALID_CATEGORIES |-> <<>>]
    /\ unclassified_count = 0
    /\ split_pc = "loop"

\* classify_articles after json.load, before its loops
InitSelect(DocumentLists) ==
    /\ documents \in DocumentLists
    /\ doc_index = 1
    /\ art_index = 1
    /\ relevant_articles = <<>>
    /\ unrelated_articles = <<>>
    /\ select_calls = <<>>
    /\ answer = <<>>
    /\ select_pc = "loop"

\* none of the tools runs
InitTools == InitCall({None}) /\ InitSplit({<<>>}) /\ InitSelect({<<>>})

InitWith(ArticleLists) == InitFor(ArticleLists, SimValues, LlmThresholds, EarlyExits)

\* article lists over the documents DocSet and the paragraph lists ParaSet,
\* article i carrying the i-th article id
Lists(DocSet, ParaSet) ==
    {a \in [Indices -> [doc : DocSet, id : {ArticleIds[k] : k \in 1 .. Len(ArticleIds)},
                        paragraphs : ParaSet]] :
        \A i \in Indices : a[i].id = ArticleIds[i + 1]}

\* article lists whose article ids are pairwise distinct, every article
\* with one paragraph
DistinctIdLists == Lists(Docs, {<<"p1">>})

\* a single run: the second run never starts.  tfidf_threshold is 1.0: the
\* similarities row drawn at line 168 decides the candidates, and a row of
\* ones admits every reference, as tfidf_threshold 0.0 does
Init == InitFor(DistinctIdLists, {1}, LlmThresholds, EarlyExits) /\ InitTwin({0}) /\ InitAnalysis({<<>>}) /\ InitTools

\* ----------------------------------------------------------------------
\* Actions: cluster_articles_with_tfidf, one step per loop position
\* ----------------------------------------------------------------------
Range(f) == {f[k] : k \in DOMAIN f}

\* the similarities line 168 can compute for the registered references
SimRows == [Range(reference_indices) -> SimValues]

Candidates(row) == SelectCandidates(articles, row, tfidf_threshold, idx, reference_indices)

\* variant: an assigned article is not added to the reference pool
Register_FoundersOnly(label) ==
    /\ reference_indices' = IF label = Label(articles[idx])
                             THEN Append(reference_indices, idx)
                             ELSE reference_indices
    /\ reference_to_label' = Append(reference_to_label, label)

\* reference_indices.append(idx); reference_to_label[idx] = label
Register(label) ==
    /\ reference_indices' = Append(reference_indices, idx)
    /\ reference_to_label' = Append(reference_to_label, label)

\* variant: the founding member is not flagged as the reference
NewReference_NotFlagged ==
    /\ Register(Label(articles[idx]))
    /\ clusters' = SetItem(clusters, Label(articles[idx]),
                           <<[article |-> idx, reference_article |-> FALSE]>>)
    /\ idx' = idx + 1
    /\ pc' = "loop"

\* the three places that found a cluster: lines 156-158, 179-181, 226-228
NewReference ==
    /\ Register(Label(articles[idx]))
    /\ clusters' = SetItem(clusters, Label(articles[idx]),
                           <<[article |-> idx, reference_article |-> TRUE]>>)
    /\ idx' = idx + 1
    /\ pc' = "loop"

FirstArticle ==
    /\ pc = "loop" /\ idx < len(articles) /\ idx = 0
    /\ NewReference
    /\ UNCHANGED <<inputs, output, sim, locals>>

NoCandidates ==
    /\ pc = "loop" /\ idx < len(articles) /\ idx # 0
    /\ \E row \in SimRows :
        /\ Candidates(row) = <<>>
        /\ sim' = row
    /\ candidate_refs' = <<>>
    /\ NewReference
    /\ UNCHANGED <<inputs, output, cpos, best_score, best_ref_label, best_ref_idx,
                   prelim_matches, response, score, calls>>

BeginCompare ==
    /\ pc = "loop" /\ idx < len(articles) /\ idx # 0
    /\ \E row \in SimRows :
        /\ Candidates(row) # <<>>
        /\ sim' = row
        /\ candidate_refs' = Candidates(row)
    /\ cpos' = 1
    /\ best_score' = BestInit
    /\ best_ref_label' = None
    /\ best_ref_idx' = NoneIdx
    /\ prelim_matches' = <<>>
    /\ calls' = <<>>
    /\ pc' = "compare"
    /\ UNCHANGED <<inputs, output, idx, reference_indices, reference_to_label, clusters,
                   response, score>>

\* variant: no try/except around float(): a non-numeric answer ends the run
Compare_Uncaught ==
    /\ pc = "compare"
    /\ \E resp \in Responses :
        LET ref_idx == candidate_refs[cpos]
            ref_label == reference_to_label[ref_idx + 1]
            sc == compare_articles_score(resp)
            hit == <<ref_label, sc, ref_idx>>
            pm == IF IsMatch(sc, llm_threshold) THEN Append(prelim_matches, hit) ELSE prelim_matches
            better == IsBetter(sc, best_score)
        IN  /\ response' = resp
            /\ IF resp.kind = "text"
               THEN /\ pc' = "error"
                    /\ UNCHANGED <<score, calls, prelim_matches, best_score, best_ref_label,
                                   best_ref_idx, cpos>>
               ELSE /\ score' = sc
                    /\ calls' = Append(calls, <<idx, ref_idx, sc>>)
                    /\ IF IsEarlyExit(sc, early_exit)
                       THEN /\ prelim_matches' = <<hit>>
                            /\ best_score' = sc
                            /\ best_ref_label' = ref_label
                            /\ best_ref_idx' = ref_idx
                            /\ cpos' = cpos
                            /\ pc' = "decide"
                       ELSE /\ prelim_matches' = pm
                            /\ best_score' = IF better THEN sc ELSE best_score
                            /\ best_ref_label' = IF better THEN ref_label ELSE best_ref_label
                            /\ best_ref_idx' = IF better THEN ref_idx ELSE best_ref_idx
                            /\ cpos' = cpos + 1
                            /\ pc' = IF cpos + 1 > Len(candidate_refs) THEN "decide" ELSE "compare"
    /\ UNCHANGED <<inputs, output, sim, idx, reference_indices, reference_to_label, clusters,
                   candidate_refs>>

Compare ==
    /\ pc = "compare"
    /\ \E resp \in Responses :
        LET ref_idx == candidate_refs[cpos]
            ref_label == reference_to_label[ref_idx + 1]
            sc == compare_articles_score(resp)
            hit == <<ref_label, sc, ref_idx>>
            pm == IF IsMatch(sc, llm_threshold) THEN Append(prelim_matches, hit) ELSE prelim_matches
            better == IsBetter(sc, best_score)
        IN  /\ response' = resp
            /\ score' = sc
            /\ calls' = Append(calls, <<idx, ref_idx, sc>>)
            /\ IF IsEarlyExit(sc, early_exit)
               THEN /\ prelim_matches' = <<hit>>
                    /\ best_score' = sc
                    /\ best_ref_label' = ref_label
                    /\ best_ref_idx' = ref_idx
                    /\ cpos' = cpos
                    /\ pc' = "decide"
               ELSE /\ prelim_matches' = pm
                    /\ best_score' = IF better THEN sc ELSE best_score
                    /\ best_ref_label' = IF better THEN ref_label ELSE best_ref_label
                    /\ best_ref_idx' = IF better THEN ref_idx ELSE best_ref_idx
                    /\ cpos' = cpos + 1
                    /\ pc' = IF cpos + 1 > Len(candidate_refs) THEN "decide" ELSE "compare"
    /\ UNCHANGED <<inputs, output, sim, idx, reference_indices, reference_to_label, clusters,
                   candidate_refs>>

Assign ==
    /\ pc = "decide"
    /\ prelim_matches # <<>>
    /\ LET chosen_ref_label == MaxByScore(prelim_matches)[1]
       IN /\ clusters' = AppendMember(clusters, chosen_ref_label,
                                      [article |-> idx, reference_article |-> FALSE])
          /\ Register(AssignedLabel(chosen_ref_label, Label(articles[idx])))
    /\ idx' = idx + 1
    /\ pc' = "loop"
    /\ UNCHANGED <<inputs, output, sim, locals>>

Promote ==
    /\ pc = "decide"
    /\ prelim_matches = <<>>
    /\ NewReference
    /\ UNCHANGED <<inputs, output, sim, locals>>

Return ==
    /\ pc = "loop" /\ idx = len(articles)
    /\ pc' = "done"
    /\ UNCHANGED <<inputs, output, sim, idx, reference_indices, reference_to_label, clusters, locals>>

\* save_clusters_to_json(clusters), line 278
Save ==
    /\ pc = "done"
    /\ output' = save_clusters_to_json(clusters)
    /\ pc' = "saved"
    /\ UNCHANGED <<inputs, sim, idx, reference_indices, reference_to_label, clusters, locals>>

\* the steps of a single run
SoloFirstArticle == FirstArticle /\ UNCHANGED <<twin, analysis, tools>>
SoloNoCandidates == NoCandidates /\ UNCHANGED <<twin, analysis, tools>>
SoloBeginCompare == BeginCompare /\ UNCHANGED <<twin, analysis, tools>>
SoloCompare == Compare /\ UNCHANGED <<twin, analysis, tools>>
SoloAssign == Assign /\ UNCHANGED <<twin, analysis, tools>>
SoloPromote == Promote /\ UNCHANGED <<twin, analysis, tools>>
SoloReturn == Return /\ UNCHANGED <<twin, analysis, tools>>
SoloSave == Save /\ UNCHANGED <<twin, analysis, tools>>

Next ==
    \/ SoloFirstArticle
    \/ SoloNoCandidates
    \/ SoloBeginCompare
    \/ SoloCompare
    \/ SoloAssign
    \/ SoloPromote
    \/ SoloReturn
    \/ SoloSave

Spec == Init /\ [][Next]_vars

\* the loop and the save run to completion: nothing in them waits
SpecFair == Spec /\ WF_vars(Next)

\* the same run over articles that may have no paragraphs, at the
\* thresholds tfidf 1.0, llm (MaxScore - 1) / MaxScore, early exit 1.0
InitParas ==
    InitFor(Lists(Docs, {<<>>, <<"p1">>}), {1}, {MaxScore - 1}, {MaxScore}) /\ InitTwin({0}) /\ InitAnalysis({<<>>}) /\ InitTools

SpecParas == InitParas /\ [][Next]_vars

\* article ids are not checked for uniqueness: here every article has the
\* id "a0", so the articles of one document share their label
SameIdLists == [Indices -> [doc : Docs, id : {"a0"}, paragraphs : {<<"p1">>}]]

InitSameId == InitWith(SameIdLists) /\ InitTwin({0}) /\ InitAnalysis({<<>>}) /\ InitTools

SpecSameId == InitSameId /\ [][Next]_vars

\* ----------------------------------------------------------------------
\* The scenario of three articles of three documents: the oracle answers
\* 0.9 for the pair (B, A) and 0.3 for the pair (C, A); on the score grid
\* 0.8 < 0.9 < 0.95 are MaxScore - 2 < MaxScore - 1 < MaxScore and 0.3 is 0.
\* ----------------------------------------------------------------------
ScenarioDocs == <<"doc1", "doc2", "doc3", "doc4", "doc5">>

ScenarioLists ==
    {a \in Lists({ScenarioDocs[k] : k \in 1 .. Len(ScenarioDocs)}, {<<"p1">>}) :
        \A i \in Indices : a[i].doc = ScenarioDocs[i + 1]}

InitScenario == InitWith(ScenarioLists) /\ InitTwin({0}) /\ InitAnalysis({<<>>}) /\ InitTools

ScenarioOracle ==
    LET pair == <<idx, candidate_refs[cpos]>>
    IN /\ pair = <<1, 0>> => response' = [kind |-> "num", val |-> MaxScore - 1]
       /\ pair = <<2, 0>> => response' = [kind |-> "num", val |-> 0]

ScenarioCompare == Compare /\ ScenarioOracle /\ UNCHANGED <<twin, analysis, tools>>

NextScenario ==
    \/ SoloFirstArticle
    \/ SoloNoCandidates
    \/ SoloBeginCompare
    \/ ScenarioCompare
    \/ SoloAssign
    \/ SoloPromote
    \/ SoloReturn
    \/ SoloSave

SpecScenario == InitScenario /\ [][NextScenario]_vars

\* ----------------------------------------------------------------------
\* Two runs side by side: the same articles, similarities, tfidf_threshold,
\* early_exit and oracle answers, and llm_threshold <= b_llm_threshold.
\* The second run executes the same code on its own variables; the two
\* runs ask the oracle about the same pair in the same step, so one answer
\* serves both.
\* ----------------------------------------------------------------------
B_NewReference ==
    /\ b_reference_indices' = Append(b_reference_indices, b_idx)
    /\ b_reference_to_label' = Append(b_reference_to_label, Label(articles[b_idx]))
    /\ b_clusters' = SetItem(b_clusters, Label(articles[b_idx]),
                             <<[article |-> b_idx, reference_article |-> TRUE]>>)
    /\ b_idx' = b_idx + 1
    /\ b_pc' = "loop"

B_FirstArticle ==
    /\ b_pc = "loop" /\ b_idx < len(articles) /\ b_idx = 0
    /\ B_NewReference
    /\ UNCHANGED <<b_llm_threshold, b_candidate_refs, b_cpos, b_best_score,
                   b_best_ref_label, b_best_ref_idx, b_prelim_matches>>

\* lines 162-189 on the similarities row
B_Select(row) ==
    /\ b_pc = "loop" /\ b_idx < len(articles) /\ b_idx # 0
    /\ LET cands == SelectCandidates(articles, row, tfidf_threshold, b_idx, b_reference_indices)
       IN IF cands = <<>>
          THEN /\ b_candidate_refs' = <<>>
               /\ B_NewReference
               /\ UNCHANGED <<b_llm_threshold, b_cpos, b_best_score, b_best_ref_label,
                              b_best_ref_idx, b_prelim_matches>>
          ELSE /\ b_candidate_refs' = cands
               /\ b_cpos' = 1
               /\ b_best_score' = BestInit
               /\ b_best_ref_label' = None
               /\ b_best_ref_idx' = NoneIdx
               /\ b_prelim_matches' = <<>>
               /\ b_pc' = "compare"
               /\ UNCHANGED <<b_llm_threshold, b_idx, b_reference_indices,
                              b_reference_to_label, b_clusters>>

\* lines 191-213 on the oracle answer resp
B_Compare(resp) ==
    /\ b_pc = "compare"
    /\ <<b_idx, b_candidate_refs[b_cpos]>> = <<idx, candidate_refs[cpos]>>
    /\ LET ref_idx == b_candidate_refs[b_cpos]
           ref_label == b_reference_to_label[ref_idx + 1]
           sc == compare_articles_score(resp)
           hit == <<ref_label, sc, ref_idx>>
           pm == IF IsMatch(sc, b_llm_threshold) THEN Append(b_prelim_matches, hit)
                 ELSE b_prelim_matches
           better == IsBetter(sc, b_best_score)
       IN IF IsEarlyExit(sc, early_exit)
          THEN /\ b_prelim_matches' = <<hit>>
               /\ b_best_score' = sc
               /\ b_best_ref_label' = ref_label
               /\ b_best_ref_idx' = ref_idx
               /\ b_cpos' = b_cpos
               /\ b_pc' = "decide"
          ELSE /\ b_prelim_matches' = pm
               /\ b_best_score' = IF better THEN sc ELSE b_best_score
               /\ b_best_ref_label' = IF better THEN ref_label ELSE b_best_ref_label
               /\ b_best_ref_idx' = IF better THEN ref_idx ELSE b_best_ref_idx
               /\ b_cpos' = b_cpos + 1
               /\ b_pc' = IF b_cpos + 1 > Len(b_candidate_refs) THEN "decide" ELSE "compare"
    /\ UNCHANGED <<b_llm_threshold, b_idx, b_reference_indices, b_reference_to_label,
                   b_clusters, b_candidate_refs>>

\* lines 215-231
B_Decide ==
    /\ b_pc = "decide"
    /\ IF b_prelim_matches # <<>>
       THEN LET chosen_ref_label == MaxByScore(b_prelim_matches)[1]
            IN /\ b_clusters' = AppendMember(b_clusters, chosen_ref_label,
                                             [article |-> b_idx, reference_article |-> FALSE])
               /\ b_reference_indices' = Append(b_reference_indices, b_idx)
               /\ b_reference_to_label' =
                      Append(b_reference_to_label,
                             AssignedLabel(chosen_ref_label, Label(articles[b_idx])))
               /\ b_idx' = b_idx + 1
               /\ b_pc' = "loop"
       ELSE B_NewReference
    /\ UNCHANGED <<b_llm_threshold, b_candidate_refs, b_cpos, b_best_score,
                   b_best_ref_label, b_best_ref_idx, b_prelim_matches>>

B_Return ==
    /\ b_pc = "loop" /\ b_idx = len(articles)
    /\ b_pc' = "done"
    /\ UNCHANGED <<b_llm_threshold, b_idx, b_reference_indices, b_reference_to_label,
                   b_clusters, b_candidate_refs, b_cpos, b_best_score, b_best_ref_label,
                   b_best_ref_idx, b_prelim_matches>>

TwinFirstArticle == FirstArticle /\ B_FirstArticle /\ UNCHANGED <<analysis, tools>>
TwinSelect == (NoCandidates \/ BeginCompare) /\ B_Select(sim') /\ UNCHANGED <<analysis, tools>>
TwinCompare == Compare /\ B_Compare(response') /\ UNCHANGED <<analysis, tools>>
TwinDecide == (Assign \/ Promote) /\ B_Decide /\ UNCHANGED <<analysis, tools>>
TwinReturn == Return /\ B_Return /\ UNCHANGED <<analysis, tools>>

NextTwin ==
    \/ TwinFirstArticle
    \/ TwinSelect
    \/ TwinCompare
    \/ TwinDecide
    \/ TwinReturn

\* NumArticles + 1 articles of three documents in turn; article ids are not
\* checked for uniqueness, here every article has the id "a0", so the
\* articles of one document share their label
SameIdList ==
    [i \in 0 .. NumArticles |->
        [doc |-> ScenarioDocs[(i % 3) + 1], id |-> "a0", paragraphs |-> <<"p1">>]]

\* tfidf_threshold 1.0: the similarities row decides the candidates
InitTwoRuns ==
    /\ InitFor({SameIdList}, {1}, LlmThresholds, {MaxScore})
    /\ InitTwin(LlmThresholds)
    /\ InitAnalysis({<<>>}) /\ InitTools
    /\ llm_threshold <= b_llm_threshold

SpecTwin == InitTwoRuns /\ [][NextTwin]_vars

\* ----------------------------------------------------------------------
\* analyse_clustered_file (aku_dev.py, gemini_integration.py)
\* ----------------------------------------------------------------------
clustering == <<inputs, sim, pc, idx, reference_indices, reference_to_label, clusters,
                locals, output>>

RECURSIVE PermutationsFrom(_, _, _)
PermutationsFrom(i, j, n) ==
    IF i >= n THEN <<>>
    ELSE IF j >= n THEN PermutationsFrom(i + 1, 0, n)
    ELSE IF i = j THEN PermutationsFrom(i, j + 1, n)
    ELSE <<<<i, j>>>> \o PermutationsFrom(i, j + 1, n)

RECURSIVE CombinationsFrom(_, _, _)
CombinationsFrom(i, j, n) ==
    IF i >= n - 1 THEN <<>>
    ELSE IF j >= n THEN CombinationsFrom(i + 1, i + 2, n)
    ELSE <<<<i, j>>>> \o CombinationsFrom(i, j + 1, n)

\* variant: itertools.permutations(range(n), 2)
combinations_Permutations(n) == PermutationsFrom(0, 1, n)

\* itertools.combinations(range(n), 2): the pairs i < j in lexicographic order
combinations(n) == CombinationsFrom(0, 1, n)

\* for subcat in data: ... for i, j in itertools.combinations(...)
AnBeginSubcat ==
    /\ an_pc = "subcat" /\ an_subcat <= Len(data)
    /\ an_pairs' = combinations(Len(data[an_subcat].articles))
    /\ an_pc' = "pairs"
    /\ UNCHANGED <<data, an_subcat, all_results, an_asked, clustering, twin, tools>>

\* if not paras_a or not paras_b: continue
AnSkip ==
    /\ an_pc = "pairs" /\ an_pairs # <<>>
    /\ LET articles_ == data[an_subcat].articles
           art_a == articles_[an_pairs[1][1] + 1]
           art_b == articles_[an_pairs[1][2] + 1]
       IN art_a.paragraphs = <<>> \/ art_b.paragraphs = <<>>
    /\ an_pairs' = Tail(an_pairs)
    /\ UNCHANGED <<data, an_pc, an_subcat, all_results, an_asked, clustering, twin, tools>>

\* relation = classify_paragraph_pair(text_a, text_b); all_results.append(...)
AnClassify ==
    /\ an_pc = "pairs" /\ an_pairs # <<>>
    /\ LET articles_ == data[an_subcat].articles
           art_a == articles_[an_pairs[1][1] + 1]
           art_b == articles_[an_pairs[1][2] + 1]
       IN /\ art_a.paragraphs # <<>> /\ art_b.paragraphs # <<>>
          /\ an_asked' = Append(an_asked, <<art_a.id, art_b.id>>)
          /\ \E relation \in Relations :
                all_results' = Append(all_results,
                                      [subcategory |-> data[an_subcat].reference_label,
                                       section_a_id |-> art_a.id,
                                       section_b_id |-> art_b.id,
                                       relation |-> relation])
    /\ an_pairs' = Tail(an_pairs)
    /\ UNCHANGED <<data, an_pc, an_subcat, clustering, twin, tools>>

\* classify_paragraph_pair raises ValueError on an answer it cannot read
AnRaise ==
    /\ an_pc = "pairs" /\ an_pairs # <<>>
    /\ LET articles_ == data[an_subcat].articles
           art_a == articles_[an_pairs[1][1] + 1]
           art_b == articles_[an_pairs[1][2] + 1]
       IN /\ art_a.paragraphs # <<>> /\ art_b.paragraphs # <<>>
          /\ an_asked' = Append(an_asked, <<art_a.id, art_b.id>>)
    /\ an_pc' = "raised"
    /\ UNCHANGED <<data, an_subcat, an_pairs, all_results, clustering, twin, tools>>

\* the inner loop is exhausted: next subcat
AnEndSubcat ==
    /\ an_pc = "pairs" /\ an_pairs = <<>>
    /\ an_subcat' = an_subcat + 1
    /\ an_pc' = "subcat"
    /\ UNCHANGED <<data, an_pairs, all_results, an_asked, clustering, twin, tools>>

\* json.dump(all_results, ...); return all_results
AnReturn ==
    /\ an_pc = "subcat" /\ an_subcat > Len(data)
    /\ an_pc' = "returned"
    /\ UNCHANGED <<data, an_subcat, an_pairs, all_results, an_asked, clustering, twin, tools>>

NextAnalyse ==
    \/ AnBeginSubcat
    \/ AnSkip
    \/ AnClassify
    \/ AnRaise
    \/ AnEndSubcat
    \/ AnReturn

\* the analysis alone: no clustering run in the same process
InitAnalyse ==
    /\ InitFor({<<>>}, {0}, {0}, {0})
    /\ InitTwin({0})
    /\ InitAnalysis(ClusteredFiles)
    /\ InitTools

SpecAnalyse == InitAnalyse /\ [][NextAnalyse]_vars

\* ----------------------------------------------------------------------
\* Texts.  A text is a sequence of atoms: a blank, a punctuation mark, or a
\* word that the functions below look for as a whole, in one spelling.
\* ----------------------------------------------------------------------
Space == " "

Texts(Atoms) == UNION {[1 .. n -> Atoms] : n \in 0 .. MaxAnswer}

RECURSIVE lstrip(_, _)
lstrip(s, chars) == IF s # <<>> /\ Head(s) \in chars THEN lstrip(Tail(s), chars) ELSE s

RECURSIVE rstrip(_, _)
rstrip(s, chars) ==
    IF s # <<>> /\ s[Len(s)] \in chars THEN rstrip(SubSeq(s, 1, Len(s) - 1), chars) ELSE s

\* str.strip(chars); str.strip() is strip(s, {Space})
strip(s, chars) == rstrip(lstrip(s, chars), chars)

LowerAtom(a) ==
    CASE a = "OVERLAP" -> "overlap"
      [] a = "C" -> "c"
      [] a = "YES" -> "yes"
      [] a = "NO" -> "no"
      [] a = "CREDIT_RISK" -> "credit_risk"
      [] OTHER -> a

UpperAtom(a) ==
    CASE a = "overlap" -> "OVERLAP"
      [] a = "c" -> "C"
      [] a = "yes" -> "YES"
      [] a = "no" -> "NO"
      [] a = "credit_risk" -> "CREDIT_RISK"
      [] OTHER -> a

\* str.lower(), str.upper()
lower(s) == [k \in 1 .. Len(s) |-> LowerAtom(s[k])]
upper(s) == [k \in 1 .. Len(s) |-> UpperAtom(s[k])]

\* word in s
contains(s, word) == \E k \in 1 .. Len(s) : s[k] = word

\* the first character of an atom
FirstLetter(a) ==
    CASE a \in {"contradiction", "c"} -> "c"
      [] a \in {"overlap", "o"} -> "o"
      [] a \in {"bloat", "b"} -> "b"
      [] OTHER -> a

\* s.startswith(letter), letter a single character
startswith(s, letter) == s # <<>> /\ FirstLetter(s[1]) = letter

\* s.startswith(word), word an atom
startswith_word(s, word) == s # <<>> /\ s[1] = word

\* str.split(): the maximal runs without blanks
RECURSIVE split_text(_)
split_text(s) ==
    LET t == lstrip(s, {Space})
        n == IF \E k \in 1 .. Len(t) : t[k] = Space
             THEN (CHOOSE k \in 1 .. Len(t) :
                      t[k] = Space /\ \A j \in 1 .. (k - 1) : t[j] # Space) - 1
             ELSE Len(t)
    IN IF t = <<>> THEN <<>>
       ELSE <<SubSeq(t, 1, n)>> \o split_text(SubSeq(t, n + 1, Len(t)))

\* ----------------------------------------------------------------------
\* call_ollama (aku_dev.py) / call_gemini: the answer normalised to a label
\* ----------------------------------------------------------------------
RelationAtoms ==
    {"contradiction", "overlap", "bloat", "OVERLAP", "c", "o", "b", "C", "x", Space}

\* variant: overlap is looked for before contradiction
call_ollama_OverlapFirst(text) ==
    LET raw == lower(strip(text, {Space}))
    IN IF contains(raw, "overlap") THEN "overlap"
       ELSE IF contains(raw, "contradiction") THEN "contradiction"
       ELSE IF contains(raw, "bloat") THEN "bloat"
       ELSE IF startswith(raw, "c") THEN "contradiction"
       ELSE IF startswith(raw, "o") THEN "overlap"
       ELSE IF startswith(raw, "b") THEN "bloat"
       ELSE "ValueError"

call_ollama(text) ==
    LET raw == lower(strip(text, {Space}))
    IN IF contains(raw, "contradiction") THEN "contradiction"
       ELSE IF contains(raw, "overlap") THEN "overlap"
       ELSE IF contains(raw, "bloat") THEN "bloat"
       ELSE IF startswith(raw, "c") THEN "contradiction"
       ELSE IF startswith(raw, "o") THEN "overlap"
       ELSE IF startswith(raw, "b") THEN "bloat"
       ELSE "ValueError"

idle == <<clustering, twin, analysis>>

CallOllama ==
    /\ fn_ret = NotCalled
    /\ fn_ret' = <<call_ollama(fn_arg)>>
    /\ UNCHANGED <<fn_arg, idle, split, select>>

NextNormalise == CallOllama

InitNoRun == InitFor({<<>>}, {0}, {0}, {0}) /\ InitTwin({0}) /\ InitAnalysis({<<>>})

InitNormalise ==
    InitNoRun /\ InitCall(Texts(RelationAtoms)) /\ InitSplit({<<>>}) /\ InitSelect({<<>>})

SpecNormalise == InitNormalise /\ [][NextNormalise]_vars

\* ----------------------------------------------------------------------
\* classify_article_category (split_by_risk_category.py), from the output
\* of the LLM process on
\* ----------------------------------------------------------------------
CategoryAtoms == VALID_CATEGORIES \cup {"credit_risk", ".", "1", Space}

\* the results the call can have: the loop over the set VALID_CATEGORIES
\* runs in the order of the process's string hashes
classify_article_category(out) ==
    LET raw == strip(out, {Space})
        ans == upper(strip(raw, {Space}))
        tokens == split_text(ans)
    IN IF tokens = <<>> THEN {"IndexError"}
       ELSE LET first_token == strip(tokens[1], {Space, ".", ",", ":", ";"})
                found == {cat \in VALID_CATEGORIES : contains(ans, cat)}
            IN IF first_token \in {<<cat>> : cat \in VALID_CATEGORIES}
               THEN {first_token[1]}
               ELSE IF found # {} THEN found ELSE {Null}

CallClassifyCategory ==
    /\ fn_ret = NotCalled
    /\ fn_ret' \in {<<category>> : category \in classify_article_category(fn_arg)}
    /\ UNCHANGED <<fn_arg, idle, split, select>>

NextCategory == CallClassifyCategory

InitCategory ==
    InitNoRun /\ InitCall(Texts(CategoryAtoms)) /\ InitSplit({<<>>}) /\ InitSelect({<<>>})

SpecCategory == InitCategory /\ [][NextCategory]_vars

\* ----------------------------------------------------------------------
\* summarize_relations (aku_dev.py, gemini_integration.py)
\* ----------------------------------------------------------------------
\* records with a label, with another string, with null, without the key
RelationRecords ==
    {[section_a_id |-> "s1", relation |-> v] : v \in Relations \cup {"total_metric", Null}}
        \cup {[section_a_id |-> "s1"]}

ResultLists == UNION {[1 .. n -> RelationRecords] : n \in 0 .. MaxResults}

\* dict.get(key)
get(r, key) == IF key \in DOMAIN r THEN r[key] ELSE Null

\* the loop of lines 97-100
RECURSIVE CountRelations(_, _)
CountRelations(results, counts) ==
    IF results = <<>> THEN counts
    ELSE LET rel == get(Head(results), "relation")
         IN CountRelations(Tail(results),
                           IF rel \in DOMAIN counts
                           THEN [counts EXCEPT ![rel] = counts[rel] + 1]
                           ELSE counts)

\* variant: bloat is counted in total_metric
summarize_relations_BloatInMetric(results) ==
    LET counts == CountRelations(results, [overlap |-> 0, contradiction |-> 0, bloat |-> 0])
        total_metric == counts["overlap"] + counts["contradiction"] + counts["bloat"]
    IN [overlap |-> counts["overlap"], contradiction |-> counts["contradiction"],
        bloat |-> counts["bloat"], total_metric |-> total_metric,
        total_all |-> total_metric + counts["bloat"]]

summarize_relations(results) ==
    LET counts == CountRelations(results, [overlap |-> 0, contradiction |-> 0, bloat |-> 0])
        total_metric == counts["overlap"] + counts["contradiction"]
    IN [overlap |-> counts["overlap"], contradiction |-> counts["contradiction"],
        bloat |-> counts["bloat"], total_metric |-> total_metric,
        total_all |-> total_metric + counts["bloat"]]

CallSummarize ==
    /\ fn_ret = NotCalled
    /\ fn_ret' = <<summarize_relations(fn_arg)>>
    /\ UNCHANGED <<fn_arg, idle, split, select>>

NextSummarize == CallSummarize

InitSummarize ==
    InitNoRun /\ InitCall(ResultLists) /\ InitSplit({<<>>}) /\ InitSelect({<<>>})

SpecSummarize == InitSummarize /\ [][NextSummarize]_vars

\* ----------------------------------------------------------------------
\* split_credit_related_by_risk (split_by_risk_category.py)
\* ----------------------------------------------------------------------
\* the articles of the input file, told apart by their article id; an
\* article has no paragraphs or one
SplitInputs ==
    UNION {[1 .. n -> [id : 1 .. NumArticles, paragraphs : {<<>>, <<"p1">>}]]
              : n \in 0 .. NumArticles}

SplitArticleLists == {a \in SplitInputs : \A k \in 1 .. Len(a) : a[k].id = k}

\* what classify_article_category can return or raise, over every output
ClassifyOutcomes == UNION {classify_article_category(out) : out \in Texts(CategoryAtoms)}

\* the article of the iteration about to start
art == split_articles[split_index + 1]

\* variant: an article without paragraphs is skipped without being counted
SplitSkipEmpty_NotCounted ==
    /\ split_pc = "loop"
    /\ split_index < Len(split_articles)
    /\ art.paragraphs = <<>>
    /\ split_index' = split_index + 1
    /\ UNCHANGED <<split_articles, split_lists, unclassified_count, split_pc>>
    /\ UNCHANGED <<idle, call, select>>

\* lines 121-124
SplitSkipEmpty ==
    /\ split_pc = "loop"
    /\ split_index < Len(split_articles)
    /\ art.paragraphs = <<>>
    /\ unclassified_count' = unclassified_count + 1
    /\ split_index' = split_index + 1
    /\ UNCHANGED <<split_articles, split_lists, split_pc>>
    /\ UNCHANGED <<idle, call, select>>

\* lines 126-158: the category decides the list; an exception of
\* classify_article_category ends the function
SplitClassify ==
    /\ split_pc = "loop"
    /\ split_index < Len(split_articles)
    /\ art.paragraphs # <<>>
    /\ \E category \in ClassifyOutcomes :
          IF category = "IndexError"
          THEN /\ split_pc' = "raised"
               /\ UNCHANGED <<split_index, split_lists, unclassified_count>>
          ELSE /\ split_lists' =
                     IF category \in VALID_CATEGORIES
                     THEN [split_lists EXCEPT ![category] = Append(@, art)]
                     ELSE split_lists
               /\ unclassified_count' =
                     IF category \in VALID_CATEGORIES
                     THEN unclassified_count ELSE unclassified_count + 1
               /\ split_index' = split_index + 1
               /\ UNCHANGED split_pc
    /\ UNCHANGED split_articles
    /\ UNCHANGED <<idle, call, select>>

\* lines 160-174
SplitSave ==
    /\ split_pc = "loop"
    /\ split_index = Len(split_articles)
    /\ split_pc' = "returned"
    /\ UNCHANGED <<split_articles, split_index, split_lists, unclassified_count>>
    /\ UNCHANGED <<idle, call, select>>

NextSplit == SplitSkipEmpty \/ SplitClassify \/ SplitSave

InitSplitRun ==
    InitNoRun /\ InitCall({None}) /\ InitSplit(SplitArticleLists) /\ InitSelect({<<>>})

SpecSplit == InitSplitRun /\ [][NextSplit]_vars

\* ----------------------------------------------------------------------
\* classify_articles (select_relevant.py)
\* ----------------------------------------------------------------------
AnswerAtoms == {"YES", "yes", "NO", "x", Space}

\* the article ids of one document: a document has no article, the first
\* or both
DocArticleIds == {1, 2}

\* the paragraph lists of the articles of one document
DocShapes == UNION {[1 .. n -> {<<>>, <<"p1">>}] : n \in {0} \cup DocArticleIds}

\* what the LLM process can print
Replies == UNION {[1 .. n -> AnswerAtoms] : n \in 0 .. MaxReply}

\* parsed files: document d is named d, its a-th article has the id a
DocumentLists ==
    UNION {{[d \in 1 .. nd |->
                [name |-> d,
                 articles |-> [a \in 1 .. Len(shape[d]) |->
                                  [id |-> a, paragraphs |-> shape[d][a]]]]]
               : shape \in [1 .. nd -> DocShapes]}
              : nd \in 0 .. MaxDocuments}

\* variant: only the answer YES itself counts
is_credit_relevant_Exact(out) ==
    LET raw == strip(out, {Space})
        ans == upper(strip(raw, {Space}))
    IN IF ans = <<"YES">> THEN TRUE
       ELSE IF startswith_word(ans, "NO") THEN FALSE
       ELSE FALSE

\* out is what the LLM process printed
is_credit_relevant(out) ==
    LET raw == strip(out, {Space})
        ans == upper(strip(raw, {Space}))
    IN IF startswith_word(ans, "YES") THEN TRUE
       ELSE IF startswith_word(ans, "NO") THEN FALSE
       ELSE FALSE

doc == documents[doc_index]
article == doc.articles[art_index]

\* lines 79-81
SelectSkipEmpty ==
    /\ select_pc = "loop"
    /\ doc_index <= Len(documents)
    /\ art_index <= Len(doc.articles)
    /\ article.paragraphs = <<>>
    /\ art_index' = art_index + 1
    /\ UNCHANGED <<documents, doc_index, relevant_articles, unrelated_articles,
                   select_calls, answer, select_pc>>
    /\ UNCHANGED <<idle, call, split>>

\* line 84 up to line 38: the prompt goes to the LLM process, which answers
SelectAsk ==
    /\ select_pc = "loop"
    /\ doc_index <= Len(documents)
    /\ art_index <= Len(doc.articles)
    /\ article.paragraphs # <<>>
    /\ answer' \in Replies
    /\ select_pc' = "answered"
    /\ UNCHANGED <<documents, doc_index, art_index, relevant_articles,
                   unrelated_articles, select_calls>>
    /\ UNCHANGED <<idle, call, split>>

\* lines 39-46 and 85-99: is_credit_relevant returns, the record is stored
SelectPlace ==
    /\ select_pc = "answered"
    /\ LET is_rel == is_credit_relevant(answer)
           record == [doc |-> doc.name, id |-> article.id,
                      paragraphs |-> article.paragraphs]
       IN /\ select_calls' = Append(select_calls, <<doc_index, art_index, is_rel>>)
          /\ relevant_articles' =
                IF is_rel THEN Append(relevant_articles, record) ELSE relevant_articles
          /\ unrelated_articles' =
                IF is_rel THEN unrelated_articles ELSE Append(unrelated_articles, record)
    /\ answer' = <<>>
    /\ art_index' = art_index + 1
    /\ select_pc' = "loop"
    /\ UNCHANGED <<documents, doc_index>>
    /\ UNCHANGED <<idle, call, split>>

\* lines 69, 101: the articles of the document are through
SelectNextDocument ==
    /\ select_pc = "loop"
    /\ doc_index <= Len(documents)
    /\ art_index > Len(doc.articles)
    /\ doc_index' = doc_index + 1
    /\ art_index' = 1
    /\ UNCHANGED <<documents, relevant_articles, unrelated_articles,
                   select_calls, answer, select_pc>>
    /\ UNCHANGED <<idle, call, split>>

\* lines 103-108
SelectSave ==
    /\ select_pc = "loop"
    /\ doc_index > Len(documents)
    /\ select_pc' = "returned"
    /\ UNCHANGED <<documents, doc_index, art_index, relevant_articles,
                   unrelated_articles, select_calls, answer>>
    /\ UNCHANGED <<idle, call, split>>

NextSelect == SelectSkipEmpty \/ SelectAsk \/ SelectPlace \/ SelectNextDocument \/ SelectSave

InitSelectRun ==
    InitNoRun /\ InitCall({None}) /\ InitSplit({<<>>}) /\ InitSelect(DocumentLists)

SpecSelect == InitSelectRun /\ [][NextSelect]_vars

\* ----------------------------------------------------------------------
\* parse_articles (parse_EBA.py, gepardicategorisizer.py).  A line is known
\* by what the two patterns and the heading test make of it, and by its
\* place in the input:
\*   "empty"    the empty string
\*   "blank"    blanks only
\*   "heading"  matches HEADING_RE and is a probable article heading
\*   "meta"     matches HEADING_RE, is no probable heading, no paragraph start
\*   "metapara" matches HEADING_RE, is no probable heading, and matches
\*              PARA_START_RE ("29.6.2014 x" with the pattern of parse_EBA.py)
\*   "para"     matches PARA_START_RE only
\*   "text"     matches neither
\* A text is the sequence of the lines joined into it.
\* ----------------------------------------------------------------------
LineKinds == {"empty", "blank", "heading", "meta", "metapara", "para", "text"}

LineLists ==
    UNION {{[k \in 1 .. n |-> [kind |-> kinds[k], at |-> k]] : kinds \in [1 .. n -> LineKinds]}
              : n \in 0 .. MaxLines}

HEADING_RE_match(line) == line.kind \in {"heading", "meta", "metapara"}

is_probable_article_heading(line) == line.kind = "heading"

\* PARA_START_RE.match on a text: decided by the line the text starts with
PARA_START_RE_match(text) == text # <<>> /\ text[1].kind \in {"para", "metapara"}

\* bool(line)
truthy(line) == line.kind # "empty"

\* text.strip(): blank lines at either end leave nothing
strip_lines(text) == strip(text, {line \in [kind : {"blank"}, at : 1 .. (MaxLines + 1)] : TRUE})

\* flush_current_paragraph: the state after it
flush_current_paragraph(st) ==
    LET stored == strip_lines(st.current_para_text)
    IN [st EXCEPT
          !.current_article =
              IF st.current_article # <<>> /\ st.current_para_text # <<>> /\ stored # <<>>
              THEN <<[st.current_article[1] EXCEPT !.paragraphs = Append(@, stored)]>>
              ELSE @,
          !.current_para_text = <<>>]

\* flush_current_article: the state after it
flush_current_article(st) ==
    IF st.current_article # <<>>
    THEN LET flushed == flush_current_paragraph(st)
         IN [flushed EXCEPT !.articles = Append(@, flushed.current_article[1]),
                            !.current_article = <<>>]
    ELSE [st EXCEPT !.current_article = <<>>]

\* one iteration of the loop over the lines
ParseLine(st, line) ==
    IF ~truthy(line) THEN st
    ELSE IF HEADING_RE_match(line) /\ is_probable_article_heading(line)
    THEN [flush_current_article(st) EXCEPT
             !.current_article = <<[id |-> line.at, paragraphs |-> <<>>]>>,
             !.current_para_text = <<>>]
    ELSE IF st.current_article = <<>> THEN st
    ELSE IF PARA_START_RE_match(<<line>>)
    THEN [flush_current_paragraph(st) EXCEPT !.current_para_text = <<line>>]
    ELSE IF st.current_para_text # <<>>
    THEN [st EXCEPT !.current_para_text = Append(@, line)]
    ELSE IF \E k \in 1 .. Len(st.current_article[1].paragraphs) :
                PARA_START_RE_match(st.current_article[1].paragraphs[k])
    THEN [st EXCEPT !.current_para_text = <<line>>]
    ELSE st

RECURSIVE ParseLoop(_, _)
ParseLoop(lines, st) ==
    IF lines = <<>> THEN st ELSE ParseLoop(Tail(lines), ParseLine(st, Head(lines)))

ParsedArticles(paragraphs) ==
    flush_current_article(
        ParseLoop(paragraphs, [articles |-> <<>>, current_article |-> <<>>,
                               current_para_text |-> <<>>])).articles

has_numbered(a) == \E k \in 1 .. Len(a.paragraphs) : PARA_START_RE_match(a.paragraphs[k])

\* variant: without the final filter
parse_articles_NoFilter(paragraphs) == ParsedArticles(paragraphs)

parse_articles(paragraphs) == SelectSeq(ParsedArticles(paragraphs), has_numbered)

CallParseArticles ==
    /\ fn_ret = NotCalled
    /\ fn_ret' = <<parse_articles(fn_arg)>>
    /\ UNCHANGED <<fn_arg, idle, split, select>>

NextParse == CallParseArticles

InitParse == InitNoRun /\ InitCall(LineLists) /\ InitSplit({<<>>}) /\ InitSelect({<<>>})

SpecParse == InitParse /\ [][NextParse]_vars


\* ----------------------------------------------------------------------
\* Vocabulary of the properties
\* ----------------------------------------------------------------------
PosIn(sq, x) == CHOOSE k \in 1 .. Len(sq) : sq[k] = x

\* the places <<cluster position, member position>> where article a is stored
Places(a) ==
    {p \in (1 .. Len(clusters)) \X (1 .. NumArticles) :
        /\ p[2] <= Len(clusters[p[1]].members)
        /\ clusters[p[1]].members[p[2]].article = a}

DistinctLabels ==
    \A i, j \in Indices : i # j => Label(articles[i]) # Label(articles[j])

\* article a sits in the store flagged as a founding reference
IsReferenceMember(a) ==
    \E p \in Places(a) : clusters[p[1]].members[p[2]].reference_article

\* the article idx - 1 went through the candidate loop and has been decided
Decided ==
    /\ pc \in {"loop", "done", "saved"}
    /\ calls # <<>>
    /\ calls[1][1] = idx - 1

\* the step appends article a, flagged false, to the cluster keyed l and
\* changes nothing else in the store
AppendedTo(l, a) ==
    /\ Len(clusters') = Len(clusters)
    /\ \E c \in 1 .. Len(clusters) : clusters[c].label = l
    /\ \A c \in 1 .. Len(clusters) :
        /\ clusters'[c].label = clusters[c].label
        /\ clusters'[c].members =
              IF clusters[c].label = l
              THEN Append(clusters[c].members, [article |-> a, reference_article |-> FALSE])
              ELSE clusters[c].members

\* ----------------------------------------------------------------------
\* C1 - Partition invariant: with pairwise distinct labels, once articles
\* 0..i have been processed exactly those articles are in the store, each in
\* exactly one member list and exactly once; at the end this holds for all
\* input articles.
\* ----------------------------------------------------------------------
C1_Partition ==
    DistinctLabels =>
        \A a \in Indices : Cardinality(Places(a)) = (IF a < idx THEN 1 ELSE 0)

C1_Witness ==
    /\ pc = "done"
    /\ DistinctLabels
    /\ Len(clusters) = 2
    /\ \E c \in 1 .. Len(clusters) : Len(clusters[c].members) >= 2

\* ----------------------------------------------------------------------
\* C2 - Early-exit short-circuit: once candidate k scores >= early_exit no
\* later candidate is sent to the oracle, the preliminary matches are
\* exactly <<k>>, and the article is appended to the cluster registered
\* for k.
\* ----------------------------------------------------------------------
C2_ExitState ==
    /\ pc = "decide"
    /\ calls # <<>>
    /\ calls[Len(calls)][3] >= early_exit

C2_StateInv ==
    /\ (pc = "compare" => \A n \in 1 .. Len(calls) : calls[n][3] < early_exit)
    /\ C2_ExitState =>
          LET n == Len(calls)
              k == calls[n][2]
          IN /\ k = candidate_refs[n]
             /\ \A m \in 1 .. n : calls[m][2] = candidate_refs[m]
             /\ \A m \in 1 .. (n - 1) : calls[m][3] < early_exit
             /\ prelim_matches = << <<reference_to_label[k + 1], calls[n][3], k>> >>

C2_Step ==
    C2_ExitState =>
        /\ calls' = calls
        /\ AppendedTo(reference_to_label[calls[Len(calls)][2] + 1], idx)

C2_EarlyExit == [](C2_StateInv) /\ [][C2_Step]_vars

\* an early exit at the second candidate, after a first preliminary match,
\* has been taken and the article was appended to the second candidate's cluster
C2_Witness ==
    /\ Decided
    /\ Len(calls) = 2
    /\ Len(candidate_refs) = 2
    /\ calls[1][3] > llm_threshold
    /\ calls[2][3] >= early_exit
    /\ Len(prelim_matches) = 1
    /\ reference_to_label[idx] = reference_to_label[calls[2][2] + 1]
    /\ reference_to_label[calls[1][2] + 1] # reference_to_label[calls[2][2] + 1]

\* ----------------------------------------------------------------------
\* C3 - Same-document exclusion: every oracle call (i, r) issued has r < i
\* and different document names, for founding references and proxies alike.
\* ----------------------------------------------------------------------
C3_SameDocExclusion ==
    \A n \in 1 .. Len(calls) :
        /\ calls[n][2] < calls[n][1]
        /\ articles[calls[n][1]].doc # articles[calls[n][2]].doc

\* an oracle call against a proxy while a same-document reference was skipped
C3_Witness ==
    /\ pc = "decide"
    /\ \E n \in 1 .. Len(calls) :
          reference_to_label[calls[n][2] + 1] # Label(articles[calls[n][2]])
    /\ \E r \in Range(reference_indices) :
          /\ articles[r].doc = articles[idx].doc
          /\ sim[r] >= tfidf_threshold

\* ----------------------------------------------------------------------
\* C4 - Assignment rule: with a non-empty preliminary match set the article
\* is appended, flagged false, to the cluster of the match of maximal score,
\* the earliest in candidate order among equals; no other cluster changes.
\* ----------------------------------------------------------------------
C4_Step ==
    (pc = "decide" /\ prelim_matches # <<>>) =>
        \E p \in 1 .. Len(prelim_matches) :
            /\ \A q \in 1 .. Len(prelim_matches) : prelim_matches[q][2] <= prelim_matches[p][2]
            /\ \A q \in 1 .. (p - 1) : prelim_matches[q][2] < prelim_matches[p][2]
            /\ AppendedTo(prelim_matches[p][1], idx)

C4_Assignment == [][C4_Step]_vars

\* two preliminary matches of equal score for two different clusters; the
\* article went to the first one
C4_Witness ==
    /\ Decided
    /\ Len(prelim_matches) = 2
    /\ prelim_matches[1][2] = prelim_matches[2][2]
    /\ prelim_matches[1][1] # prelim_matches[2][1]
    /\ reference_to_label[idx] = prelim_matches[1][1]
    /\ ~IsReferenceMember(idx - 1)

\* ----------------------------------------------------------------------
\* C5 - Promotion rule.  As claimed: for llm_threshold <= early_exit an
\* article with candidates is promoted iff every score obtained for it is
\* <= llm_threshold or invalid.
\* ----------------------------------------------------------------------
C5_Original ==
    (llm_threshold <= early_exit /\ Decided) =>
        (IsReferenceMember(idx - 1) <=>
            \A n \in 1 .. Len(calls) : calls[n][3] = Invalid \/ calls[n][3] <= llm_threshold)

\* C5 as amended: an article with candidates is promoted iff every score
\* obtained for it is invalid, or is <= llm_threshold and < early_exit; a
\* score equal to llm_threshold produces a match exactly when it reaches
\* early_exit.
C5_Promotion ==
    Decided =>
        (IsReferenceMember(idx - 1) <=>
            \A n \in 1 .. Len(calls) :
                \/ calls[n][3] = Invalid
                \/ (calls[n][3] <= llm_threshold /\ calls[n][3] < early_exit))

\* promoted after a score exactly equal to llm_threshold, below early_exit
C5_Witness ==
    /\ Decided
    /\ llm_threshold < early_exit
    /\ \E n \in 1 .. Len(calls) : calls[n][3] = llm_threshold
    /\ IsReferenceMember(idx - 1)

\* ----------------------------------------------------------------------
\* C6 - Invalid score means no match and does not abort.  As claimed: a
\* response that is not a number adds no preliminary match, triggers no
\* early exit, the next candidate is still evaluated, and an article whose
\* scores are all invalid or <= llm_threshold is promoted.
\* ----------------------------------------------------------------------
C6_InvalidStep ==
    (pc = "compare" /\ calls' # calls /\ response'.kind = "text") =>
        /\ prelim_matches' = prelim_matches
        /\ cpos' = cpos + 1
        /\ pc' = (IF cpos < Len(candidate_refs) THEN "compare" ELSE "decide")

C6_OriginalDecision ==
    Decided =>
        ((\A n \in 1 .. Len(calls) : calls[n][3] = Invalid \/ calls[n][3] <= llm_threshold)
            => IsReferenceMember(idx - 1))

\* while the candidate loop runs, the candidates before cpos have been sent
\* to the oracle in candidate order, whatever their answers were
C6_InOrder ==
    pc \in {"compare", "decide"} =>
        /\ Len(calls) <= Len(candidate_refs)
        /\ \A m \in 1 .. Len(calls) : calls[m][1] = idx /\ calls[m][2] = candidate_refs[m]
        /\ (pc = "compare" => Len(calls) = cpos - 1 /\ cpos <= Len(candidate_refs))

C6_Original == [](C6_OriginalDecision /\ C6_InOrder) /\ [][C6_InvalidStep]_vars

\* C6 as amended: the same, with promotion when every score is invalid, or
\* is <= llm_threshold and < early_exit.
C6_Decision ==
    Decided =>
        ((\A n \in 1 .. Len(calls) :
              \/ calls[n][3] = Invalid
              \/ (calls[n][3] <= llm_threshold /\ calls[n][3] < early_exit))
            => /\ IsReferenceMember(idx - 1)
               /\ reference_to_label[idx] = Label(articles[idx - 1]))

C6_InvalidNoMatch == [](C6_Decision /\ C6_InOrder) /\ [][C6_InvalidStep]_vars

\* a non-numeric answer for the first of two candidates, the second one
\* evaluated after it, and the article promoted
C6_Witness ==
    /\ Decided
    /\ Len(calls) = 2
    /\ calls[1][3] = Invalid
    /\ calls[2][3] > Invalid
    /\ IsReferenceMember(idx - 1)

\* ----------------------------------------------------------------------
\* C7 - An invalid oracle result never wins a best-score comparison: it
\* leaves best_score, best_ref_label and best_ref_idx unchanged, also as the
\* first candidate evaluated.
\* ----------------------------------------------------------------------
C7_Step ==
    (pc = "compare" /\ calls' # calls /\ score' = Invalid) =>
        /\ best_score' = best_score
        /\ best_ref_label' = best_ref_label
        /\ best_ref_idx' = best_ref_idx

C7_InvalidNeverBest == [][C7_Step]_vars

\* ----------------------------------------------------------------------
\* C8 - Out-of-range oracle responses are invalid: a response that parses
\* as a number outside [0,1] yields the invalid sentinel; only responses
\* inside [0,1] yield a valid score.
\* ----------------------------------------------------------------------
C8_OutOfRangeInvalid ==
    (calls # <<>> /\ response.kind = "num" /\ (response.val < 0 \/ response.val > MaxScore))
        => score = Invalid

\* ----------------------------------------------------------------------
\* C9 - Proxy registration under the cluster's label: for every processed
\* article j, reference_to_label[j] is a key of the store and that
\* cluster's member list contains j.
\* ----------------------------------------------------------------------
C9_ProxyRegistration ==
    DistinctLabels =>
        \A j \in 0 .. (idx - 1) :
            \E c \in 1 .. Len(clusters) :
                /\ clusters[c].label = reference_to_label[j + 1]
                /\ \E m \in 1 .. Len(clusters[c].members) : clusters[c].members[m].article = j

\* an article matched a proxy only and sits in the proxy's cluster, whose
\* label is neither the proxy's nor the article's own label
C9_Witness ==
    /\ Decided
    /\ Len(calls) = 1
    /\ LET j == calls[1][2]
       IN /\ reference_to_label[j + 1] # Label(articles[j])
          /\ reference_to_label[idx] = reference_to_label[j + 1]
          /\ reference_to_label[idx] # Label(articles[idx - 1])

\* ----------------------------------------------------------------------
\* C10 - Candidate selection: the candidate list of article i > 0 is the
\* subsequence, in registration order, of exactly the registered references
\* of another document whose similarity is >= tfidf_threshold.
\* ----------------------------------------------------------------------
C10_CandidateSelection ==
    LET busy == pc \in {"compare", "decide"}
        i == IF busy THEN idx ELSE idx - 1
        pool == IF busy THEN reference_indices
                ELSE SubSeq(reference_indices, 1, Len(reference_indices) - 1)
    IN i >= 1 =>
        /\ Range(candidate_refs) =
              {r \in Range(pool) :
                  /\ articles[r].doc # articles[i].doc
                  /\ sim[r] >= tfidf_threshold}
        /\ \A p, q \in 1 .. Len(candidate_refs) :
              p < q => PosIn(pool, candidate_refs[p]) < PosIn(pool, candidate_refs[q])

\* a reference of similarity equal to tfidf_threshold is a candidate while
\* another registered reference is left out
C10_Witness ==
    /\ pc = "compare"
    /\ tfidf_threshold = 1
    /\ Len(candidate_refs) >= 1
    /\ Len(candidate_refs) < Len(reference_indices)
    /\ \A n \in 1 .. Len(candidate_refs) : sim[candidate_refs[n]] = tfidf_threshold


\* ----------------------------------------------------------------------
\* C11 - Promotion without oracle: article 0 and every later article with
\* an empty candidate list is handled with no oracle call: it founds a new
\* cluster keyed by its own label, with itself as the single member flagged
\* as reference, and is registered in the pool under its own label.
\* ----------------------------------------------------------------------
C11_Step ==
    (/\ pc = "loop"
     /\ idx < NumArticles
     /\ \/ idx = 0
        \/ {r \in Range(reference_indices) :
               /\ articles[r].doc # articles[idx].doc
               /\ sim'[r] >= tfidf_threshold} = {})
    => /\ calls' = calls
       /\ response' = response
       /\ pc' = "loop"
       /\ idx' = idx + 1
       /\ clusters' = Append(clusters,
                             [label |-> Label(articles[idx]),
                              members |-> <<[article |-> idx, reference_article |-> TRUE]>>])
       /\ reference_indices' = Append(reference_indices, idx)
       /\ reference_to_label' = Append(reference_to_label, Label(articles[idx]))

C11_PromotionWithoutOracle == [][C11_Step]_vars

\* article idx - 1 > 0 had a reference of another document below the
\* pre-filter, got no candidate and founded the newest cluster
C11_Witness ==
    /\ pc = "loop"
    /\ idx >= 2
    /\ candidate_refs = <<>>
    /\ \E r \in DOMAIN sim : articles[r].doc # articles[idx - 1].doc
    /\ clusters[Len(clusters)].members = <<[article |-> idx - 1, reference_article |-> TRUE]>>
    /\ reference_to_label[idx] = Label(articles[idx - 1])

\* ----------------------------------------------------------------------
\* C13 - Monotonic strictness: of two runs on the same ordered articles,
\* tfidf_threshold, early_exit and oracle, with llm_threshold <=
\* b_llm_threshold, the run with b_llm_threshold ends with at most as many
\* non-reference members in its store as the other one.
\* ----------------------------------------------------------------------
NonReferenceCount(cl) ==
    Cardinality({p \in (1 .. Len(cl)) \X (1 .. len(articles)) :
                    /\ p[2] <= Len(cl[p[1]].members)
                    /\ ~cl[p[1]].members[p[2]].reference_article})

\* the two runs stand at the same place of the code and can both go on
TwinInStep ==
    /\ b_pc = pc
    /\ b_idx = idx
    /\ pc \in {"compare", "decide"} => b_candidate_refs = candidate_refs /\ b_cpos = cpos
    /\ pc # "done" => ENABLED NextTwin

C13_Monotonic ==
    (pc = "done" /\ b_pc = "done" /\ llm_threshold <= b_llm_threshold)
        => NonReferenceCount(b_clusters) <= NonReferenceCount(clusters)

\* ----------------------------------------------------------------------
\* C14 - Three-article scenario (A doc1, B doc2, C doc3; tfidf 0.0, llm
\* 0.8, early exit 0.95; oracle B-A 0.9, C-A 0.3).  As claimed: the store
\* after the three articles is cluster A = [A (reference), B] and cluster
\* C = [C (reference)], whatever the oracle answers for the pair (C, B).
\* ----------------------------------------------------------------------
ScenarioRun ==
    /\ tfidf_threshold = 0
    /\ llm_threshold = MaxScore - 2
    /\ early_exit = MaxScore
    /\ idx = 3
    /\ pc \in {"loop", "done", "saved"}

ScenarioTwoClusters ==
    clusters =
        << [label |-> Label(articles[0]),
            members |-> << [article |-> 0, reference_article |-> TRUE],
                           [article |-> 1, reference_article |-> FALSE] >>],
           [label |-> Label(articles[2]),
            members |-> << [article |-> 2, reference_article |-> TRUE] >>] >>

ScenarioOneCluster ==
    clusters =
        << [label |-> Label(articles[0]),
            members |-> << [article |-> 0, reference_article |-> TRUE],
                           [article |-> 1, reference_article |-> FALSE],
                           [article |-> 2, reference_article |-> FALSE] >>] >>

C14_Original == ScenarioRun => ScenarioTwoClusters

\* C14 as amended: that store is the outcome when the score for the pair
\* (C, B) is invalid or <= 0.8; B is a registered proxy of cluster A, so for
\* a score > 0.8 C is appended to cluster A and the store is the single
\* cluster [A (reference), B, C].
C14_Scenario ==
    ScenarioRun =>
        /\ Len(calls) = 2
        /\ calls[1] = <<2, 0, 0>>
        /\ calls[2][1] = 2 /\ calls[2][2] = 1
        /\ IF calls[2][3] > llm_threshold THEN ScenarioOneCluster ELSE ScenarioTwoClusters

\* the scenario ended with the two clusters after a valid answer for (C, B)
C14_Witness ==
    /\ ScenarioRun
    /\ ScenarioTwoClusters
    /\ calls[2][3] = llm_threshold

\* ----------------------------------------------------------------------
\* C15 - Threshold ordering is a fatal configuration error: with
\* llm_threshold > early_exit no article is processed, no cluster is
\* created, no reference is registered and no oracle call is issued.
\* ----------------------------------------------------------------------
C15_OrderingFatal ==
    llm_threshold > early_exit =>
        /\ idx = 0
        /\ clusters = <<>>
        /\ reference_indices = <<>>
        /\ calls = <<>>

\* ----------------------------------------------------------------------
\* C16 - Articles without paragraphs are skipped: such an article is in no
\* cluster, is not registered as a reference and is never sent to the
\* oracle.
\* ----------------------------------------------------------------------
C16_EmptySkipped ==
    \A a \in Indices :
        articles[a].paragraphs = <<>> =>
            /\ Places(a) = {}
            /\ a \notin Range(reference_indices)
            /\ \A n \in 1 .. Len(calls) : calls[n][1] # a /\ calls[n][2] # a

\* ----------------------------------------------------------------------
\* C17 - Cluster shape: every cluster has at least one member, its first
\* member is the only one flagged as reference, and the cluster's label is
\* the label of that founding member.
\* ----------------------------------------------------------------------
C17_ClusterShape ==
    \A c \in 1 .. Len(clusters) :
        LET ms == clusters[c].members
        IN /\ Len(ms) >= 1
           /\ ms[1].reference_article
           /\ \A m \in 2 .. Len(ms) : ~ms[m].reference_article
           /\ clusters[c].label = Label(articles[ms[1].article])

\* a founder followed by two appended members, beside a second cluster
C17_Witness ==
    /\ Len(clusters) >= 1
    /\ Len(clusters[1].members) = NumArticles
    /\ pc = "done"

\* ----------------------------------------------------------------------
\* C18 - Serialization is an order-preserving projection: one record
\* {reference_label, articles} per cluster, in creation order, with the
\* member list unchanged; the store is left as it was.
\* ----------------------------------------------------------------------
C18_Projection ==
    pc = "saved" =>
        /\ Len(output) = Len(clusters)
        /\ \A k \in 1 .. Len(clusters) :
              /\ output[k].reference_label = clusters[k].label
              /\ output[k].articles = clusters[k].members

C18_StoreKept == pc = "done" => clusters' = clusters

C18_Serialization == [](C18_Projection) /\ [][C18_StoreKept]_vars

\* a saved store of two clusters, the first with an appended member
C18_Witness ==
    /\ pc = "saved"
    /\ Len(output) = 2
    /\ Len(output[1].articles) = 2
    /\ ~output[1].articles[2].reference_article

\* ----------------------------------------------------------------------
\* C19 - A bad pairwise comparison never ends the run: whatever the oracle
\* answers, the articles are processed one by one in index order, each is
\* stored when its turn ends, and the run reaches its return.
\* ----------------------------------------------------------------------
C19_InOrder ==
    \/ idx' = idx
    \/ /\ idx' = idx + 1
       /\ pc' = "loop"
       /\ \E i \in Indices : i = idx /\ (Cardinality(Places(i)) = 1)'

C19_Returned == pc \in {"done", "saved"} => idx = NumArticles

C19_Terminates == <>(pc = "done") /\ [](C19_Returned) /\ [][C19_InOrder]_vars

\* the run returned although an answer of the last article was not a number
C19_Witness ==
    /\ pc = "done"
    /\ calls # <<>>
    /\ calls[1][1] = NumArticles - 1
    /\ \E n \in 1 .. Len(calls) : calls[n][3] = Invalid

\* ----------------------------------------------------------------------
\* C20 - Relation pairing in analyse_clustered_file: the returned results
\* hold exactly one record for each pair of positions i < j of one cluster
\* whose two articles both have paragraphs, in cluster order then pair
\* order; no record pairs two clusters or an article with itself; a pair
\* with an empty-paragraph article causes no classification call.
\* ----------------------------------------------------------------------
\* the places <<cluster, position>> of the articles of the file
FilePlaces == {p \in (1 .. Len(data)) \X (1 .. MaxFileArticles) : p[2] <= Len(data[p[1]].articles)}

ArticleAt(p) == data[p[1]].articles[p[2]]

\* the place of the article with this id: ids are distinct in a file
PlaceOf(id) ==
    LET HasId(c) == \E m \in 1 .. Len(data[c].articles) : data[c].articles[m].id = id
        c == CHOOSE c1 \in 1 .. Len(data) : HasId(c1)
    IN <<c, CHOOSE m \in 1 .. Len(data[c].articles) : data[c].articles[m].id = id>>

\* a pair of places the claim wants compared
IsComparable(q) ==
    /\ q[1][1] = q[2][1]
    /\ q[1][2] < q[2][2]
    /\ ArticleAt(q[1]).paragraphs # <<>>
    /\ ArticleAt(q[2]).paragraphs # <<>>

Comparable == {q \in FilePlaces \X FilePlaces : IsComparable(q)}

RecordPlaces(r) == <<PlaceOf(r.section_a_id), PlaceOf(r.section_b_id)>>

\* q1 comes before q2 in cluster order, then pair order
PairBefore(q1, q2) ==
    \/ q1[1][1] < q2[1][1]
    \/ q1[1][1] = q2[1][1] /\ q1[1][2] < q2[1][2]
    \/ q1[1][1] = q2[1][1] /\ q1[1][2] = q2[1][2] /\ q1[2][2] < q2[2][2]

\* the pairs of places of the records, in the order of the records
ResultPlaces == [k \in 1 .. Len(all_results) |-> RecordPlaces(all_results[k])]

C20_Records ==
    an_pc = "returned" =>
        LET places == ResultPlaces
        IN /\ \A k \in 1 .. Len(all_results) :
                 /\ IsComparable(places[k])
                 /\ all_results[k].subcategory = data[places[k][1][1]].reference_label
                 /\ all_results[k].relation \in Relations
           /\ \A q \in Comparable :
                 Cardinality({k \in 1 .. Len(all_results) : places[k] = q}) = 1
           /\ \A k \in 1 .. (Len(all_results) - 1) : PairBefore(places[k], places[k + 1])

C20_Calls ==
    \A k \in 1 .. Len(an_asked) :
        IsComparable(<<PlaceOf(an_asked[k][1]), PlaceOf(an_asked[k][2])>>)

C20_RelationPairing == C20_Records /\ C20_Calls

\* returned with records of two clusters, one pair having been skipped
C20_Witness ==
    /\ an_pc = "returned"
    /\ \E k1, k2 \in 1 .. Len(all_results) :
          all_results[k1].subcategory # all_results[k2].subcategory
    /\ \E p1, p2 \in FilePlaces :
          /\ p1[1] = p2[1] /\ p1[2] < p2[2]
          /\ ArticleAt(p1).paragraphs = <<>>
          /\ ArticleAt(p2).paragraphs # <<>>

\* ----------------------------------------------------------------------
\* C25 - The store only grows: an article in a member list stays in that
\* member list in every later state, and a promotion adds one cluster and
\* replaces or empties none, also when two articles yield the same label.
\* ----------------------------------------------------------------------
MembersKept ==
    \A c \in 1 .. Len(clusters) :
        /\ c <= Len(clusters')
        /\ clusters'[c].label = clusters[c].label
        /\ Len(clusters'[c].members) >= Len(clusters[c].members)
        /\ SubSeq(clusters'[c].members, 1, Len(clusters[c].members)) = clusters[c].members

\* the step promotes article idx: first article, no candidates, or no match
PromotionStep ==
    /\ idx' = idx + 1
    /\ pc = "loop" \/ (pc = "decide" /\ prelim_matches = <<>>)

C25_Step ==
    /\ MembersKept
    /\ PromotionStep => Len(clusters') = Len(clusters) + 1

C25_StoreGrows == [][C25_Step]_vars

\* ----------------------------------------------------------------------
\* C26 - Transitive growth through proxies: an article whose oracle calls
\* produced a match is appended to the cluster of a member it matched,
\* founder or proxy, every call being against another document; so it can
\* join a cluster whose founder is of its own document and was never
\* compared with it.
\* ----------------------------------------------------------------------
\* the positions of the calls of the decided article that count as a match
MatchedCalls ==
    {n \in 1 .. Len(calls) :
        calls[n][3] > llm_threshold \/ (calls[n][3] # Invalid /\ calls[n][3] >= early_exit)}

C26_ProxyGrowth ==
    (Decided /\ DistinctLabels) =>
        /\ \A n \in 1 .. Len(calls) : articles[calls[n][1]].doc # articles[calls[n][2]].doc
        /\ MatchedCalls # {} =>
              \E n \in MatchedCalls : \E p \in Places(idx - 1) : \E q \in Places(calls[n][2]) :
                  /\ p[1] = q[1]
                  /\ ~clusters[p[1]].members[p[2]].reference_article

\* the decided article matched a proxy only and joined a cluster founded by
\* an article of its own document, with which it was never compared
C26_Witness ==
    /\ Decided /\ DistinctLabels
    /\ \E p \in Places(idx - 1) :
          LET founder == clusters[p[1]].members[1].article
          IN /\ ~clusters[p[1]].members[p[2]].reference_article
             /\ articles[founder].doc = articles[idx - 1].doc
             /\ \A n \in 1 .. Len(calls) :
                   /\ calls[n][2] # founder
                   /\ ~IsReferenceMember(calls[n][2])

\* ----------------------------------------------------------------------
\* C27 - Reference pool equals the processed prefix: after article i,
\* reference_indices is [0, ..., i] and reference_to_label is defined on
\* exactly 0..i, whatever branch each article took; the candidates of an
\* article are the earlier articles of another document with similarity
\* >= tfidf_threshold, in ascending order.
\* ----------------------------------------------------------------------
C27_PoolIsPrefix ==
    /\ reference_indices = [k \in 1 .. idx |-> k - 1]
    /\ DOMAIN reference_to_label = 1 .. idx
    /\ pc \in {"compare", "decide"} =>
          /\ Range(candidate_refs) =
                {r \in 0 .. (idx - 1) :
                    articles[r].doc # articles[idx].doc /\ sim[r] >= tfidf_threshold}
          /\ \A k1, k2 \in 1 .. Len(candidate_refs) :
                k1 < k2 => candidate_refs[k1] < candidate_refs[k2]

\* returned after an assignment (article 1) and a promotion after oracle
\* calls (the last article)
C27_Witness ==
    /\ pc = "done"
    /\ ~IsReferenceMember(1)
    /\ calls # <<>> /\ calls[1][1] = idx - 1
    /\ IsReferenceMember(idx - 1)
    /\ Len(reference_indices) = NumArticles

\* ----------------------------------------------------------------------
\* C30 - The two selection mechanisms agree: at the end of the candidate
\* loop, when there are preliminary matches and llm_threshold <=
\* early_exit, the label chosen by max over the preliminary matches is the
\* tracked best_ref_label, that of the first candidate of maximal score.
\* ----------------------------------------------------------------------
\* the position in calls of the first call of maximal score
FirstMaxCall ==
    CHOOSE n \in 1 .. Len(calls) :
        /\ \A m \in 1 .. Len(calls) : calls[m][3] <= calls[n][3]
        /\ \A m \in 1 .. (n - 1) : calls[m][3] < calls[n][3]

C30_SelectionsAgree ==
    (pc = "decide" /\ prelim_matches # <<>> /\ llm_threshold <= early_exit) =>
        /\ MaxByScore(prelim_matches)[1] = best_ref_label
        /\ MaxByScore(prelim_matches)[3] = best_ref_idx
        /\ best_ref_idx = calls[FirstMaxCall][2]

\* two preliminary matches of equal score under different labels
C30_Witness ==
    /\ pc = "decide"
    /\ llm_threshold <= early_exit
    /\ Len(prelim_matches) = 2
    /\ prelim_matches[1][2] = prelim_matches[2][2]
    /\ prelim_matches[1][1] # prelim_matches[2][1]

\* ----------------------------------------------------------------------
\* C21 - summarize_relations counts: overlap, contradiction and bloat are
\* the numbers of records with that relation, total_metric = overlap +
\* contradiction, total_all = total_metric + bloat; a record without a
\* relation or with another value is counted nowhere, so total_all <=
\* len(results), with equality exactly when every record has a label.
\* ----------------------------------------------------------------------
RecordsWith(v) ==
    {k \in 1 .. Len(fn_arg) : "relation" \in DOMAIN fn_arg[k] /\ fn_arg[k].relation = v}

C21_Counts ==
    Returned =>
        /\ Result.overlap = Cardinality(RecordsWith("overlap"))
        /\ Result.contradiction = Cardinality(RecordsWith("contradiction"))
        /\ Result.bloat = Cardinality(RecordsWith("bloat"))
        /\ Result.total_metric = Result.overlap + Result.contradiction
        /\ Result.total_all = Result.total_metric + Result.bloat
        /\ Result.total_all <= Len(fn_arg)
        /\ Result.total_all = Len(fn_arg) <=>
              \A k \in 1 .. Len(fn_arg) : \E v \in Relations : k \in RecordsWith(v)

\* three records: an overlap, a bloat and one without a relation
C21_Witness ==
    /\ Returned
    /\ Len(fn_arg) = 3
    /\ Result.overlap = 1 /\ Result.bloat = 1 /\ Result.total_metric = 1
    /\ \E k \in 1 .. 3 : "relation" \notin DOMAIN fn_arg[k]

\* ----------------------------------------------------------------------
\* C22 - Relation label normalisation: the call returns one of the three
\* labels or raises ValueError; contradiction wins over overlap over bloat,
\* first by occurrence of the word anywhere in the lower-cased answer, then
\* by first letter c / o / b; ValueError exactly when no word occurs and
\* the answer starts with none of the letters.
\* ----------------------------------------------------------------------
\* the answer has the word, in either case
HasWord(w) == \E k \in 1 .. Len(fn_arg) : fn_arg[k] \in {w, UpperAtom(w)}

\* the first atom that is not a blank is the letter, in either case
BeginsWith(l) ==
    \E k \in 1 .. Len(fn_arg) :
        /\ fn_arg[k] \in {l, UpperAtom(l)}
        /\ \A j \in 1 .. (k - 1) : fn_arg[j] = Space

NoWord == ~HasWord("contradiction") /\ ~HasWord("overlap") /\ ~HasWord("bloat")

C22_Normalisation ==
    Returned =>
        /\ Result \in Relations \cup {"ValueError"}
        /\ HasWord("contradiction") => Result = "contradiction"
        /\ (~HasWord("contradiction") /\ HasWord("overlap")) => Result = "overlap"
        /\ (~HasWord("contradiction") /\ ~HasWord("overlap") /\ HasWord("bloat"))
              => Result = "bloat"
        /\ (NoWord /\ BeginsWith("c")) => Result = "contradiction"
        /\ (NoWord /\ BeginsWith("o")) => Result = "overlap"
        /\ (NoWord /\ BeginsWith("b")) => Result = "bloat"
        /\ Result = "ValueError" <=>
              (NoWord /\ ~BeginsWith("c") /\ ~BeginsWith("o") /\ ~BeginsWith("b"))

\* an answer that names overlap first and contradiction after it
C22_Witness ==
    /\ Returned
    /\ fn_arg = <<"OVERLAP", Space, "contradiction">>
    /\ Result = "contradiction"

\* ----------------------------------------------------------------------
\* C23 - classify_article_category is total: for every LLM output, the
\* empty and the blank one included, it returns one of the five categories
\* or None and never raises.
\* ----------------------------------------------------------------------
C23_Total == Returned => Result \in VALID_CATEGORIES \cup {Null}

\* ----------------------------------------------------------------------
\* C24 - parse_articles output shape: the returned articles are in the
\* order of their headings in the input; every returned article has a
\* paragraph and every stored paragraph starts with a numbered marker; an
\* unnumbered line is inside the paragraph of the numbered line before it
\* or nowhere; lines before the first accepted heading are in no article.
\* ----------------------------------------------------------------------
\* the accepted headings of the input, by place
Headings == {k \in 1 .. Len(fn_arg) : fn_arg[k].kind = "heading"}

\* the lines between the heading at h and the next heading
SectionOf(h) == {k \in 1 .. Len(fn_arg) : h < k /\ \A g \in Headings : g <= h \/ k < g}

Numbered(line) == line.kind \in {"para", "metapara"}

C24_OutputShape ==
    Returned =>
        /\ \A i, j \in 1 .. Len(Result) : i < j => Result[i].id < Result[j].id
        /\ \A i \in 1 .. Len(Result) :
              LET a == Result[i]
              IN /\ a.id \in Headings
                 /\ a.paragraphs # <<>>
                 /\ \A k \in 1 .. Len(a.paragraphs) :
                       LET text == a.paragraphs[k]
                       IN /\ text # <<>>
                          /\ Numbered(text[1])
                          /\ \A n \in 1 .. Len(text) :
                                /\ text[n] = fn_arg[text[n].at]
                                /\ text[n].at \in SectionOf(a.id)
                                /\ n > 1 => /\ ~Numbered(text[n])
                                            /\ text[n - 1].at < text[n].at
                                            /\ \A m \in (text[n - 1].at + 1) .. (text[n].at - 1) :
                                                  fn_arg[m].kind \in {"empty", "blank"}

\* a text line before the heading, the heading, a numbered paragraph and
\* its continuation
C24_Witness ==
    /\ Returned
    /\ Len(fn_arg) = 4
    /\ fn_arg[1].kind = "text" /\ fn_arg[2].kind = "heading"
    /\ fn_arg[3].kind = "para" /\ fn_arg[4].kind = "text"
    /\ Len(Result) = 1
    /\ Result[1].paragraphs = <<SubSeq(fn_arg, 3, 4)>>

\* ----------------------------------------------------------------------
\* C28 - Conservation in split_credit_related_by_risk: each input article
\* is in at most one of the five lists; an article without paragraphs or
\* with an unmapped category is in none and is counted once in
\* unclassified_count; the five lengths and unclassified_count add up to
\* the number of articles gone through, all of them when the function
\* returns; each list keeps input order.
\* ----------------------------------------------------------------------
RECURSIVE SumOfLengths(_)
SumOfLengths(cats) ==
    IF cats = {} THEN 0
    ELSE LET cat == CHOOSE c \in cats : TRUE
         IN Len(split_lists[cat]) + SumOfLengths(cats \ {cat})

\* the places where the k-th input article is stored
PlacesOf(k) ==
    {pl \in VALID_CATEGORIES \X (1 .. NumArticles) :
        pl[2] <= Len(split_lists[pl[1]]) /\ split_lists[pl[1]][pl[2]] = split_articles[k]}

C28_Conservation ==
    /\ SumOfLengths(VALID_CATEGORIES) + unclassified_count = split_index
    /\ split_pc = "returned" => split_index = Len(split_articles)
    /\ \A k \in 1 .. Len(split_articles) :
          /\ Cardinality(PlacesOf(k)) <= 1
          /\ (split_articles[k].paragraphs = <<>> \/ k > split_index) => PlacesOf(k) = {}
    /\ unclassified_count = Cardinality({k \in 1 .. split_index : PlacesOf(k) = {}})
    /\ \A cat \in VALID_CATEGORIES :
          \A i, j \in 1 .. Len(split_lists[cat]) :
              i < j => split_lists[cat][i].id < split_lists[cat][j].id

\* three articles: one without paragraphs, one unmapped, one stored
C28_Witness ==
    /\ split_pc = "returned"
    /\ Len(split_articles) = 3
    /\ unclassified_count = 2
    /\ Cardinality({k \in 1 .. 3 : split_articles[k].paragraphs = <<>>}) = 1

\* ----------------------------------------------------------------------
\* C29 - Relevance split in classify_articles: an article with paragraphs
\* ends in exactly one of the two outputs, relevant exactly when the
\* answer, stripped and upper-cased, starts with YES; both outputs keep
\* input order; an article without paragraphs is in neither output and
\* causes no LLM call.
\* ----------------------------------------------------------------------
\* the first atom of the answer that is not a blank is YES, in either case
StartsWithYes == \E k \in 1 .. Len(answer) :
                    answer[k] \in {"YES", "yes"} /\ \A j \in 1 .. (k - 1) : answer[j] = Space

\* the articles gone through, as <<document, article>>
Processed ==
    {da \in (1 .. MaxDocuments) \X DocArticleIds :
        /\ da[1] <= Len(documents)
        /\ da[2] <= Len(documents[da[1]].articles)
        /\ da[1] < doc_index \/ (da[1] = doc_index /\ da[2] < art_index)}

Occurrences(list, da) ==
    Cardinality({k \in 1 .. Len(list) : list[k].doc = da[1] /\ list[k].id = da[2]})

InInputOrder(list) ==
    \A i, j \in 1 .. Len(list) :
        i < j => \/ list[i].doc < list[j].doc
                 \/ list[i].doc = list[j].doc /\ list[i].id < list[j].id

C29_Outputs ==
    /\ \A da \in Processed :
          LET paragraphs == documents[da[1]].articles[da[2]].paragraphs
              called == {k \in 1 .. Len(select_calls) :
                            select_calls[k][1] = da[1] /\ select_calls[k][2] = da[2]}
          IN IF paragraphs = <<>>
             THEN /\ called = {}
                  /\ Occurrences(relevant_articles, da) = 0
                  /\ Occurrences(unrelated_articles, da) = 0
             ELSE /\ Cardinality(called) = 1
                  /\ Occurrences(relevant_articles, da)
                        + Occurrences(unrelated_articles, da) = 1
    /\ Len(relevant_articles) + Len(unrelated_articles) = Len(select_calls)
    /\ InInputOrder(relevant_articles)
    /\ InInputOrder(unrelated_articles)
    /\ select_pc = "returned" => doc_index = Len(documents) + 1

\* the article that was asked about is stored by the answer
C29_Placement ==
    select_pc = "answered" =>
        LET record == [doc |-> doc_index, id |-> art_index, paragraphs |-> article.paragraphs]
        IN IF StartsWithYes
           THEN /\ relevant_articles' = Append(relevant_articles, record)
                /\ unrelated_articles' = unrelated_articles
           ELSE /\ relevant_articles' = relevant_articles
                /\ unrelated_articles' = Append(unrelated_articles, record)

C29_RelevanceSplit == []C29_Outputs /\ [][C29_Placement]_vars

\* two documents, an article without paragraphs, both outputs filled
C29_Witness ==
    /\ select_pc = "returned"
    /\ Len(documents) = 2
    /\ \E d \in 1 .. 2 : \E a \in 1 .. Len(documents[d].articles) :
          documents[d].articles[a].paragraphs = <<>>
    /\ relevant_articles # <<>>
    /\ unrelated_articles # <<>>

TypeOK ==
    /\ pc \in {"loop", "compare", "decide", "done", "saved"}
    /\ idx \in 0 .. NumArticles
    /\ score \in ValidScores \cup {Invalid}
    /\ Len(reference_indices) = Len(reference_to_label)
====
